---- MODULE Spec2Model ----
(***************************************************************************)
(* Model of the Docker & server performance monitor (src/src/main.rs,      *)
(* server_monitor.rs, docker_monitor.rs, email_notifier.rs, config.rs).    *)
(*                                                                         *)
(* Percentages (f64 in the source) are integers in thousandths of a        *)
(* percent: 80.0 is 80000, 75.5 is 75500.  The "{:.2}" rendering of a      *)
(* percentage is therefore a real rounding, to hundredths.                 *)
(***************************************************************************)
EXTENDS Integers, Sequences, FiniteSets, TLC

(* ---------------------------------------------------------------- bounds *)

\* Longest container listing the runtime returns in one enumeration.
MaxContainers == 2
\* Number of check cycles the continuous loop is followed for.
MaxCycles == 2

(* ----------------------------------------------------- program constants *)

\* config.rs:41  cpu_threshold: 80.0
DefaultCpuThreshold == 80000
\* main.rs:73  check_container_cpu_threshold(50.0)
SecondaryThreshold == 50000
\* docker_monitor.rs:151  Ok(0.0)
PlaceholderCpu == 0

(* ------------------------------------------------------------ input sets *)

\* cpu_threshold values a config file can carry (f64, not validated).
Thresholds == {-1000, 0, DefaultCpuThreshold}
\* Host CPU readings sysinfo can report.
HostReadings == {0, 80000, 80004, 85000}
\* An address string of the config: empty, non-empty but not a mailbox,
\* or a well-formed mailbox.
Addresses == {"", "not-an-address", "ops@example.com"}
Passwords == {"", "secret"}
\* smtp_server: a name SmtpTransport::relay accepts, or one it rejects.
SmtpServers == {"smtp.gmail.com", "bad host"}

\* What the runtime reports for one listed container: no id in the summary,
\* an id whose one-shot stats read succeeds, an id whose stats read fails.
ContainerKinds == {"no_id", "stats_ok", "stats_err"}

(* ---------------------------------------------------------------- config *)

\* impl Default for Config
DefaultConfig ==
    [cpu_threshold   |-> DefaultCpuThreshold,
     enabled         |-> FALSE,
     smtp_server     |-> "smtp.gmail.com",
     sender_email    |-> "",
     sender_password |-> "",
     recipient_email |-> ""]

\* The configs Config::load_from_file can return (any well-typed JSON).
FileConfigs ==
    [cpu_threshold   : Thresholds,
     enabled         : BOOLEAN,
     smtp_server     : SmtpServers,
     sender_email    : Addresses,
     sender_password : Passwords,
     recipient_email : Addresses]

\* PerformanceMonitor::new, lines 27-36: the loaded config, or the default
\* when loading failed.
LoadConfig(loadOk, fileCfg) == IF loadOk THEN fileCfg ELSE DefaultConfig

(* ------------------------------------------------- server_monitor.rs *)

\* check_cpu_threshold with the comparison made inclusive.
CheckCpuThresholdInclusive(cpu_usage, threshold) ==
    [is_high |-> cpu_usage >= threshold, cpu_usage |-> cpu_usage]

\* ServerMonitor::check_cpu_threshold: the reading just taken by
\* get_cpu_usage, compared with the configured threshold.
CheckCpuThreshold(cpu_usage, threshold) ==
    IF cpu_usage > threshold
    THEN [is_high |-> TRUE, cpu_usage |-> cpu_usage]
    ELSE [is_high |-> FALSE, cpu_usage |-> cpu_usage]

(* ------------------------------------------------- docker_monitor.rs *)

\* The memory figures of a successful one-shot stats read.
StatsSample == [usage |-> 512, limit |-> 1024]

\* calculate_cpu_usage returning a measured, non-zero figure.
CalculateCpuUsageMeasured == PlaceholderCpu + 75500

\* DockerMonitor::calculate_cpu_usage
CalculateCpuUsage == PlaceholderCpu

\* memory_percent of calculate_resource_usage, lines 136-140.
MemoryPercent(usage, limit) ==
    IF limit > 0 THEN (usage * 100000) \div limit ELSE 0

\* DockerMonitor::calculate_resource_usage for a container of the given
\* kind: Err when the summary carries no id; the computed figures when the
\* stats read yields a sample; zeros when it yields none or an error.
CalculateResourceUsage(kind) ==
    IF kind = "no_id"
    THEN [ok |-> FALSE, cpu_usage |-> 0, memory_usage |-> 0,
          memory_limit |-> 0, memory_percent |-> 0]
    ELSE IF kind = "stats_ok"
    THEN [ok |-> TRUE, cpu_usage |-> CalculateCpuUsage,
          memory_usage |-> StatsSample.usage,
          memory_limit |-> StatsSample.limit,
          memory_percent |-> MemoryPercent(StatsSample.usage, StatsSample.limit)]
    ELSE [ok |-> TRUE, cpu_usage |-> 0, memory_usage |-> 0,
          memory_limit |-> 0, memory_percent |-> 0]

\* DockerMonitor::get_single_container_stats for the container listed at
\* position name: the error of calculate_resource_usage is propagated.
GetSingleContainerStats(name, kind) ==
    LET r == CalculateResourceUsage(kind)
    IN  [ok    |-> r.ok,
         stats |-> [name           |-> name,
                    cpu_usage      |-> r.cpu_usage,
                    memory_usage   |-> r.memory_usage,
                    memory_limit   |-> r.memory_limit,
                    memory_percent |-> r.memory_percent]]

\* The for loop of get_container_stats, lines 68-76: the stats of the
\* containers listed at positions i..Len(listing), in listing order,
\* skipping those whose stats call returned Err.
RECURSIVE CollectStats(_, _)
CollectStats(listing, i) ==
    IF i > Len(listing) THEN << >>
    ELSE LET r == GetSingleContainerStats(i, listing[i])
         IN  IF r.ok THEN <<r.stats>> \o CollectStats(listing, i + 1)
             ELSE CollectStats(listing, i + 1)

\* The comparator with its operands the other way round (ascending order).
CpuBeforeAscending(a, b) == a.cpu_usage < b.cpu_usage

\* The comparator of line 79, |a, b| b.cpu_usage.partial_cmp(&a.cpu_usage):
\* TRUE when a orders strictly before b.
CpuBefore(a, b) == b.cpu_usage < a.cpu_usage

\* One insertion of the stable sort: x, which came after every element of
\* the sorted prefix s, goes in front of the first element it orders before.
RECURSIVE InsertByCpu(_, _)
InsertByCpu(x, s) ==
    IF s = << >> THEN <<x>>
    ELSE IF CpuBefore(x, Head(s)) THEN <<x>> \o s
    ELSE <<Head(s)>> \o InsertByCpu(x, Tail(s))

\* container_stats.sort_by(...), line 79: a stable sort.
RECURSIVE SortByCpu(_)
SortByCpu(s) ==
    IF s = << >> THEN << >>
    ELSE InsertByCpu(s[Len(s)], SortByCpu(SubSeq(s, 1, Len(s) - 1)))

\* DockerMonitor::get_container_stats once the enumeration has succeeded.
GetContainerStats(listing) == SortByCpu(CollectStats(listing, 1))

\* The filter with the comparison made inclusive.
RECURSIVE FilterHighCpuInclusive(_, _)
FilterHighCpuInclusive(s, threshold) ==
    IF s = << >> THEN << >>
    ELSE IF Head(s).cpu_usage >= threshold
    THEN <<Head(s)>> \o FilterHighCpuInclusive(Tail(s), threshold)
    ELSE FilterHighCpuInclusive(Tail(s), threshold)

\* The filter of check_container_cpu_threshold, lines 163-166.
RECURSIVE FilterHighCpu(_, _)
FilterHighCpu(s, threshold) ==
    IF s = << >> THEN << >>
    ELSE IF Head(s).cpu_usage > threshold
    THEN <<Head(s)>> \o FilterHighCpu(Tail(s), threshold)
    ELSE FilterHighCpu(Tail(s), threshold)

\* Lines 163-179 of check_container_cpu_threshold applied to the sorted set.
ThresholdOfSet(container_stats, threshold) ==
    LET high == FilterHighCpu(container_stats, threshold)
    IN  [has_high_cpu |-> high # << >>, high_cpu_containers |-> high]

\* DockerMonitor::check_container_cpu_threshold: Err when the enumeration
\* (list_containers) failed, otherwise the verdict on the sorted set.
CheckContainerCpuThreshold(enumOk, listing, threshold) ==
    IF enumOk
    THEN LET r == ThresholdOfSet(GetContainerStats(listing), threshold)
         IN  [ok |-> TRUE, has_high_cpu |-> r.has_high_cpu,
              high_cpu_containers |-> r.high_cpu_containers]
    ELSE [ok |-> FALSE, has_high_cpu |-> FALSE, high_cpu_containers |-> << >>]

(* ------------------------------------------------- email_notifier.rs *)

\* EmailNotifier::new forgetting to look at the recipient address.
NotifierEnabledIgnoresRecipient(cfg) ==
    cfg.enabled /\ cfg.sender_email # "" /\ cfg.sender_password # ""

\* EmailNotifier::new: the enabled field of the constructed notifier.
NotifierEnabled(cfg) ==
    IF cfg.enabled
    THEN IF cfg.sender_email = "" \/ cfg.sender_password = ""
            \/ cfg.recipient_email = ""
         THEN FALSE
         ELSE TRUE
    ELSE FALSE

\* str::parse::<Mailbox>() succeeds.
ParsesAsMailbox(addr) == addr = "ops@example.com"
\* SmtpTransport::relay(server) returns Ok.
RelayAccepts(server) == server = "smtp.gmail.com"

\* EmailNotifier::send_alert.  ret is "true" or "false" when the call
\* returns, "panic" when an unwrap() panics; transport tells whether
\* mailer.send was called; at names the line where the call ended.
SendAlert(cfg, enabled, buildOk, transportOk) ==
    IF ~enabled
    THEN [ret |-> "false", transport |-> FALSE, at |-> "disabled"]
    ELSE IF ~ParsesAsMailbox(cfg.sender_email)
    THEN [ret |-> "panic", transport |-> FALSE, at |-> "parse_sender"]
    ELSE IF ~ParsesAsMailbox(cfg.recipient_email)
    THEN [ret |-> "panic", transport |-> FALSE, at |-> "parse_recipient"]
    ELSE IF ~buildOk
    THEN [ret |-> "false", transport |-> FALSE, at |-> "build"]
    ELSE IF ~RelayAccepts(cfg.smtp_server)
    THEN [ret |-> "panic", transport |-> FALSE, at |-> "relay"]
    ELSE IF transportOk
    THEN [ret |-> "true", transport |-> TRUE, at |-> "sent"]
    ELSE [ret |-> "false", transport |-> TRUE, at |-> "transport"]

\* "{:.2}" of a percentage: thousandths rounded to hundredths.
Fmt2(x) == (x + 5) \div 10

\* No container part (the test message has none).
NoTable == [form |-> "none", text |-> "", header |-> << >>, rows |-> << >>]

\* The <tr> of one container in either table (name and the two {:.2}
\* figures; image and status are copied through).
TableRow(c) ==
    [name |-> c.name, cpu |-> Fmt2(c.cpu_usage), memory |-> Fmt2(c.memory_percent)]

TableRows(containers) == [i \in 1..Len(containers) |-> TableRow(containers[i])]

\* EmailNotifier::format_container_table: the explanatory sentence for an
\* empty list, otherwise a table with a header row and one row a container.
FormatContainerTable(containers) ==
    IF containers = << >>
    THEN [form |-> "sentence",
          text |-> "No specific containers with high CPU usage detected.",
          header |-> << >>,
          rows |-> << >>]
    ELSE [form |-> "table",
          text |-> "",
          header |-> <<"Container Name", "CPU Usage", "Memory Usage", "Image">>,
          rows |-> TableRows(containers)]

\* EmailNotifier::format_detailed_container_table: always a table, with a
\* Status column added.
FormatDetailedContainerTable(containers) ==
    [form |-> "table",
     text |-> "",
     header |-> <<"Container Name", "CPU Usage", "Memory Usage", "Image", "Status">>,
     rows |-> TableRows(containers)]

\* The container part of the body of an alert of the given kind.
AlertTable(kind, containers) ==
    IF kind = "cpu" THEN FormatContainerTable(containers)
    ELSE IF kind = "container" THEN FormatDetailedContainerTable(containers)
    ELSE NoTable

(* ----------------------------------------------------------- the state *)

VARIABLES
    pc,              \* where the process is
    flags,           \* the command line: [status, test_email, continuous]
    construct,       \* outcomes of PerformanceMonitor::new
    config,          \* PerformanceMonitor.config
    enabled,         \* EmailNotifier.enabled
    mode,            \* the command mode main selected
    cycle,           \* number of check cycles started
    reading,         \* what the host telemetry reported at the last sample
    server_high,     \* run_monitoring's server_high
    server_cpu,      \* run_monitoring's server_cpu
    host_containers, \* check_server_cpu's high_cpu_containers
    container_high,  \* run_monitoring's container_high
    high_containers, \* run_monitoring's high_containers
    last_enum,       \* the get_container_stats call of the step just taken
    sent,            \* the notifier calls of the current cycle or mode
    result,          \* what run_monitoring returned: "none", "true", "false"
    did,             \* kinds of effect the process has had so far
    trace,           \* the stages of the current cycle or mode, in order
    status_out,      \* what print_status_summary printed
    totals,          \* counts over all cycles of the process
    pure             \* inputs and results of the pure evaluations (PureSpec)

vars == <<pc, flags, construct, config, enabled, mode, cycle, reading,
          server_high, server_cpu, host_containers, container_high,
          high_containers, last_enum, sent, result, did, trace, status_out,
          totals, pure>>

cycleVars == <<reading, server_high, server_cpu, host_containers,
               container_high, high_containers, result>>

\* main.rs:157  docker_stats.iter().take(5)
TopContainers == 5
\* How many of the stats the status report lists.
TopShown(stats) == IF Len(stats) < TopContainers THEN Len(stats) ELSE TopContainers

\* Container listings the runtime can return.
Listings == UNION {[1..n -> ContainerKinds] : n \in 0..MaxContainers}

NoEnum == [called |-> FALSE, ok |-> FALSE, listing |-> << >>, stats |-> << >>]
NoConstruct == [load |-> "none", connect |-> "none", ping |-> "none"]
NoPure == [phase |-> "off"]
NoStatus == [printed |-> FALSE]
NoTotals == [high_cycles |-> 0, host_alerts |-> 0, host_failed |-> 0]

\* The get_container_stats call made inside check_container_cpu_threshold.
EnumOf(enumOk, listing) ==
    [called  |-> TRUE,
     ok      |-> enumOk,
     listing |-> IF enumOk THEN listing ELSE << >>,
     stats   |-> IF enumOk THEN GetContainerStats(listing) ELSE << >>]

\* One notifier call: the alert handed over and how send_alert ended.
Dispatch(kind, subject, cpu, containers, out) ==
    [kind       |-> kind,
     subject    |-> subject,
     server_cpu |-> cpu,
     shown_cpu  |-> Fmt2(cpu),
     containers |-> containers,
     table      |-> AlertTable(kind, containers),
     transport  |-> out.transport,
     ret        |-> out.ret,
     at         |-> out.at]

Init ==
    /\ pc = "start"
    /\ flags \in [status : BOOLEAN, test_email : BOOLEAN, continuous : BOOLEAN]
    /\ construct = NoConstruct
    /\ config = DefaultConfig
    /\ enabled = FALSE
    /\ mode = "none"
    /\ cycle = 0
    /\ reading = 0
    /\ server_high = FALSE
    /\ server_cpu = 0
    /\ host_containers = << >>
    /\ container_high = FALSE
    /\ high_containers = << >>
    /\ last_enum = NoEnum
    /\ sent = << >>
    /\ result = "none"
    /\ did = {}
    /\ trace = << >>
    /\ status_out = NoStatus
    /\ totals = NoTotals
    /\ pure = NoPure

(* ------------------------------------------------------------- main.rs *)

\* DockerMonitor::new ignoring the outcome of the ping.
DockerMonitorNewPingIgnored(connectOk, pingOk) ==
    IF ~connectOk THEN [ok |-> FALSE, connect |-> "failed", ping |-> "none"]
    ELSE [ok |-> TRUE, connect |-> "ok",
          ping |-> IF pingOk THEN "ok" ELSE "failed"]

\* DockerMonitor::new: Ok only when the client could be set up and the
\* ping succeeded; the ping is not made when the set-up failed.
DockerMonitorNew(connectOk, pingOk) ==
    IF ~connectOk THEN [ok |-> FALSE, connect |-> "failed", ping |-> "none"]
    ELSE IF ~pingOk THEN [ok |-> FALSE, connect |-> "ok", ping |-> "failed"]
    ELSE [ok |-> TRUE, connect |-> "ok", ping |-> "ok"]

\* PerformanceMonitor::new, then main's `?` on its result (line 247).
MonitorNew ==
    /\ pc = "start"
    /\ \E loadOk \in BOOLEAN, fileCfg \in FileConfigs,
          connectOk \in BOOLEAN, pingOk \in BOOLEAN :
          LET cfg == LoadConfig(loadOk, fileCfg)
              d   == DockerMonitorNew(connectOk, pingOk)
          IN  /\ config' = cfg
              /\ construct' = [load    |-> IF loadOk THEN "ok" ELSE "failed",
                               connect |-> d.connect,
                               ping    |-> d.ping]
              /\ enabled' = IF d.ok THEN NotifierEnabled(cfg) ELSE FALSE
              /\ pc' = IF d.ok THEN "constructed" ELSE "exit_fail"
    /\ UNCHANGED <<flags, mode, cycle, cycleVars, last_enum, sent, did,
                   pure, trace, status_out, totals>>

\* The if/else chain of main, lines 249-269.
\* main testing --status before --test-email.
SelectModeStatusFirst(f) ==
    IF f.status THEN "status"
    ELSE IF f.test_email THEN "test_email"
    ELSE IF f.continuous THEN "continuous"
    ELSE "single"

SelectMode(f) ==
    IF f.test_email THEN "test_email"
    ELSE IF f.status THEN "status"
    ELSE IF f.continuous THEN "continuous"
    ELSE "single"

\* main picks the command mode.
MainSelect ==
    /\ pc = "constructed"
    /\ mode' = SelectMode(flags)
    /\ pc' = CASE mode' = "test_email" -> "test_email"
               [] mode' = "status"     -> "status"
               [] OTHER                -> "cycle_host"
    /\ cycle' = IF mode' \in {"continuous", "single"} THEN 1 ELSE 0
    /\ UNCHANGED <<flags, construct, config, enabled, cycleVars, last_enum,
                   sent, did, pure, trace, status_out, totals>>

\* PerformanceMonitor::test_email with EmailNotifier::send_test_email.
TestEmail ==
    /\ pc = "test_email"
    /\ \E buildOk \in BOOLEAN, transportOk \in BOOLEAN :
          LET out == SendAlert(config, enabled, buildOk, transportOk)
          IN  /\ sent' = Append(sent, Dispatch("test", "Test Email", 0,
                   << >>, out))
              /\ pc' = IF out.ret = "panic" THEN "panicked" ELSE "exit_ok"
    /\ did' = did \cup {"dispatch"}
    /\ UNCHANGED <<flags, construct, config, enabled, mode, cycle, cycleVars,
                   last_enum, pure, status_out, totals>>
    /\ trace' = trace \o <<"compose_test", "dispatch_test">>

\* print_status_summary passing a failed container query on with `?`
\* instead of defaulting it.
PrintStatusPropagating ==
    /\ pc = "status"
    /\ \E u \in HostReadings, enumOk \in BOOLEAN, listing \in Listings,
          infoOk \in BOOLEAN, known \in 0..MaxContainers :
          LET e == EnumOf(enumOk, listing)
          IN  /\ reading' = u
              /\ last_enum' = e
              /\ status_out' = IF enumOk /\ infoOk
                               THEN [printed |-> TRUE,
                                     cpu_usage |-> Fmt2(u),
                                     stats_ok |-> enumOk,
                                     info_ok |-> infoOk,
                                     running |-> Len(e.stats),
                                     total |-> known,
                                     top |-> SubSeq(e.stats, 1, TopShown(e.stats))]
                               ELSE NoStatus
              /\ trace' = IF enumOk /\ infoOk
                          THEN <<"sample_host", "sample_containers", "query_info", "print">>
                          ELSE <<"sample_host", "sample_containers">>
              /\ pc' = IF enumOk /\ infoOk THEN "exit_ok" ELSE "exit_fail"
    /\ did' = did \cup {"host_sample", "container_sample"}
    /\ UNCHANGED <<flags, construct, config, enabled, mode, cycle, server_high,
                   server_cpu, host_containers, container_high, high_containers,
                   sent, result, pure, totals>>

\* PerformanceMonitor::print_status_summary: a host sample, the container
\* stats and the runtime info (each defaulted when its query fails), then
\* the report.
PrintStatus ==
    /\ pc = "status"
    /\ \E u \in HostReadings, enumOk \in BOOLEAN, listing \in Listings,
          infoOk \in BOOLEAN, known \in 0..MaxContainers :
          LET e == EnumOf(enumOk, listing)
          IN  /\ reading' = u
              /\ last_enum' = e
              /\ status_out' = [printed |-> TRUE,
                                cpu_usage |-> Fmt2(u),
                                stats_ok |-> enumOk,
                                info_ok |-> infoOk,
                                running |-> Len(e.stats),
                                total |-> IF infoOk THEN known ELSE 0,
                                top |-> SubSeq(e.stats, 1, TopShown(e.stats))]
    /\ trace' = <<"sample_host", "sample_containers", "query_info", "print">>
    /\ did' = did \cup {"host_sample", "container_sample", "status_print"}
    /\ pc' = "exit_ok"
    /\ UNCHANGED <<flags, construct, config, enabled, mode, cycle, server_high,
                   server_cpu, host_containers, container_high, high_containers,
                   sent, result, pure, totals>>

\* check_server_cpu, lines 64-69 and 84-88: the host reading is taken and
\* compared; a reading that is not high ends check_server_cpu.
CheckServerCpu ==
    /\ pc = "cycle_host"
    /\ \E u \in HostReadings :
          LET r == CheckCpuThreshold(u, config.cpu_threshold)
          IN  /\ reading' = u
              /\ server_high' = r.is_high
              /\ server_cpu' = r.cpu_usage
              /\ totals' = [totals EXCEPT !.high_cycles =
                                IF r.is_high THEN @ + 1 ELSE @]
              /\ pc' = IF r.is_high THEN "host_list" ELSE "cycle_containers"
    /\ host_containers' = << >>
    /\ container_high' = FALSE
    /\ high_containers' = << >>
    /\ result' = "none"
    /\ sent' = << >>
    /\ trace' = <<"sample_host", "eval_host">>
    /\ last_enum' = NoEnum
    /\ did' = did \cup {"host_sample"}
    /\ UNCHANGED <<flags, construct, config, enabled, mode, cycle, pure,
                   status_out>>

\* The value check_server_cpu keeps from the secondary filter, lines 72-75:
\* the boolean is discarded and an Err becomes an empty list.
SecondaryList(r) == IF r.ok THEN r.high_cpu_containers ELSE << >>

\* check_server_cpu filtering a list kept from before instead of sampling
\* the containers for the alert.
HostListCached ==
    /\ pc = "host_list"
    /\ host_containers' = FilterHighCpu(host_containers, SecondaryThreshold)
    /\ trace' = Append(trace, "filter_secondary")
    /\ pc' = "host_send"
    /\ UNCHANGED <<flags, construct, config, enabled, mode, cycle, reading,
                   server_high, server_cpu, container_high, high_containers,
                   last_enum, did, sent, result, pure, status_out, totals>>

\* check_server_cpu, lines 71-75: the containers to list in the host alert.
HostList ==
    /\ pc = "host_list"
    /\ \E enumOk \in BOOLEAN, listing \in Listings :
          LET r == CheckContainerCpuThreshold(enumOk, listing, SecondaryThreshold)
          IN  /\ host_containers' = SecondaryList(r)
              /\ last_enum' = EnumOf(enumOk, listing)
              /\ trace' = trace \o (IF r.ok
                                     THEN <<"sample_containers", "filter_secondary">>
                                     ELSE <<"sample_containers">>)
    /\ pc' = "host_send"
    /\ did' = did \cup {"container_sample"}
    /\ UNCHANGED <<flags, construct, config, enabled, mode, cycle, reading,
                   server_high, server_cpu, container_high, high_containers,
                   sent, result, pure, status_out, totals>>

\* HostSend reading the host CPU again for the alert instead of passing on
\* the value that was compared.
HostSendResampled ==
    /\ pc = "host_send"
    /\ \E buildOk \in BOOLEAN, transportOk \in BOOLEAN, u \in HostReadings :
          LET out == SendAlert(config, enabled, buildOk, transportOk)
          IN  /\ sent' = Append(sent, Dispatch("cpu", "HIGH CPU USAGE ALERT",
                                               u, host_containers, out))
              /\ pc' = IF out.ret = "panic" THEN "panicked" ELSE "cycle_containers"
              /\ totals' = [totals EXCEPT
                                !.host_alerts = @ + 1,
                                !.host_failed = IF out.ret = "true" THEN @ ELSE @ + 1]
    /\ last_enum' = NoEnum
    /\ did' = did \cup {"dispatch"}
    /\ UNCHANGED <<flags, construct, config, enabled, mode, cycle,
                   cycleVars, pure, status_out>>
    /\ trace' = trace \o <<"compose_cpu", "dispatch_cpu">>

\* check_server_cpu sending the host alert only if none went out in an
\* earlier cycle.
HostSendDeduplicated ==
    /\ pc = "host_send"
    /\ \E buildOk \in BOOLEAN, transportOk \in BOOLEAN :
          LET out == SendAlert(config, enabled, buildOk, transportOk)
              first == totals.host_alerts = 0
          IN  /\ sent' = IF first
                         THEN Append(sent, Dispatch("cpu", "HIGH CPU USAGE ALERT",
                                       server_cpu, host_containers, out))
                         ELSE sent
              /\ pc' = IF first /\ out.ret = "panic" THEN "panicked"
                       ELSE "cycle_containers"
              /\ totals' = IF first
                           THEN [totals EXCEPT
                                   !.host_alerts = @ + 1,
                                   !.host_failed = IF out.ret = "true" THEN @ ELSE @ + 1]
                           ELSE totals
              /\ trace' = IF first THEN trace \o <<"compose_cpu", "dispatch_cpu">>
                          ELSE trace
    /\ last_enum' = NoEnum
    /\ did' = did \cup {"dispatch"}
    /\ UNCHANGED <<flags, construct, config, enabled, mode, cycle,
                   cycleVars, pure, status_out>>

\* check_server_cpu, lines 77-83, with EmailNotifier::send_cpu_alert.
HostSend ==
    /\ pc = "host_send"
    /\ \E buildOk \in BOOLEAN, transportOk \in BOOLEAN :
          LET out == SendAlert(config, enabled, buildOk, transportOk)
          IN  /\ sent' = Append(sent, Dispatch("cpu", "HIGH CPU USAGE ALERT",
                                               server_cpu, host_containers, out))
              /\ pc' = IF out.ret = "panic" THEN "panicked" ELSE "cycle_containers"
              /\ totals' = [totals EXCEPT
                                !.host_alerts = @ + 1,
                                !.host_failed = IF out.ret = "true" THEN @ ELSE @ + 1]
    /\ last_enum' = NoEnum
    /\ did' = did \cup {"dispatch"}
    /\ UNCHANGED <<flags, construct, config, enabled, mode, cycle,
                   cycleVars, pure, status_out>>
    /\ trace' = trace \o <<"compose_cpu", "dispatch_cpu">>

\* What check_container_cpu returns for the verdict r, lines 95-115.
ContainerVerdict(r) ==
    IF r.ok
    THEN [is_high |-> r.has_high_cpu, high_cpu_containers |-> r.high_cpu_containers]
    ELSE [is_high |-> FALSE, high_cpu_containers |-> << >>]

\* check_container_cpu passing an enumeration error on with `?` instead of
\* matching on it: the cycle ends with that error.
CheckContainerCpuPropagating ==
    /\ pc = "cycle_containers"
    /\ \E enumOk \in BOOLEAN, listing \in Listings :
          LET r == CheckContainerCpuThreshold(enumOk, listing, config.cpu_threshold)
              v == ContainerVerdict(r)
          IN  /\ container_high' = v.is_high
              /\ high_containers' = v.high_cpu_containers
              /\ last_enum' = EnumOf(enumOk, listing)
              /\ trace' = trace \o (IF r.ok
                                     THEN <<"sample_containers", "eval_containers">>
                                     ELSE <<"sample_containers">>)
              /\ pc' = IF ~r.ok THEN "cycle_failed"
                       ELSE IF r.has_high_cpu THEN "container_send"
                       ELSE "cycle_return"
    /\ did' = did \cup {"container_sample"}
    /\ UNCHANGED <<flags, construct, config, enabled, mode, cycle, reading,
                   server_high, server_cpu, host_containers, sent, result,
                   pure, status_out, totals>>

\* check_container_cpu deciding the container alert with the fixed 50%
\* filter instead of the configured threshold.
CheckContainerCpuSecondary ==
    /\ pc = "cycle_containers"
    /\ \E enumOk \in BOOLEAN, listing \in Listings :
          LET r == CheckContainerCpuThreshold(enumOk, listing, SecondaryThreshold)
              v == ContainerVerdict(r)
          IN  /\ container_high' = v.is_high
              /\ high_containers' = v.high_cpu_containers
              /\ last_enum' = EnumOf(enumOk, listing)
              /\ trace' = trace \o (IF r.ok
                                     THEN <<"sample_containers", "eval_containers">>
                                     ELSE <<"sample_containers">>)
              /\ pc' = IF r.ok /\ r.has_high_cpu THEN "container_send" ELSE "cycle_return"
    /\ did' = did \cup {"container_sample"}
    /\ UNCHANGED <<flags, construct, config, enabled, mode, cycle, reading,
                   server_high, server_cpu, host_containers, sent, result,
                   pure, status_out, totals>>

\* check_container_cpu, lines 92-96 and 106-115: the container set is sampled
\* and compared with the configured threshold.
CheckContainerCpu ==
    /\ pc = "cycle_containers"
    /\ \E enumOk \in BOOLEAN, listing \in Listings :
          LET r == CheckContainerCpuThreshold(enumOk, listing, config.cpu_threshold)
              v == ContainerVerdict(r)
          IN  /\ container_high' = v.is_high
              /\ high_containers' = v.high_cpu_containers
              /\ last_enum' = EnumOf(enumOk, listing)
              /\ trace' = trace \o (IF r.ok
                                     THEN <<"sample_containers", "eval_containers">>
                                     ELSE <<"sample_containers">>)
              /\ pc' = IF r.ok /\ r.has_high_cpu THEN "container_send" ELSE "cycle_return"
    /\ did' = did \cup {"container_sample"}
    /\ UNCHANGED <<flags, construct, config, enabled, mode, cycle, reading,
                   server_high, server_cpu, host_containers, sent, result,
                   pure, status_out, totals>>

\* check_container_cpu, lines 99-105, with send_container_cpu_alert.
ContainerSend ==
    /\ pc = "container_send"
    /\ \E buildOk \in BOOLEAN, transportOk \in BOOLEAN :
          LET out == SendAlert(config, enabled, buildOk, transportOk)
          IN  /\ sent' = Append(sent, Dispatch("container", "HIGH CONTAINER CPU ALERT",
                                               0, high_containers, out))
              /\ pc' = IF out.ret = "panic" THEN "panicked" ELSE "cycle_return"
    /\ last_enum' = NoEnum
    /\ did' = did \cup {"dispatch"}
    /\ UNCHANGED <<flags, construct, config, enabled, mode, cycle,
                   cycleVars, pure, status_out, totals>>
    /\ trace' = trace \o <<"compose_container", "dispatch_container">>

\* The value of run_monitoring, line 132.
CycleResult(sh, ch) == IF sh \/ ch THEN "true" ELSE "false"

\* run_monitoring returns Ok(server_high || container_high); its caller
\* prints the verdict, and main returns unless the loop is running.
CycleReturn ==
    /\ pc = "cycle_return"
    /\ result' = CycleResult(server_high, container_high)
    /\ pc' = IF mode = "continuous" THEN "sleep" ELSE "exit_ok"
    /\ did' = did \cup {"verdict"}
    /\ UNCHANGED <<flags, construct, config, enabled, mode, cycle, reading,
                   server_high, server_cpu, host_containers, container_high,
                   high_containers, last_enum, sent, pure, status_out, totals>>
    /\ trace' = Append(trace, "return")

\* run_continuous, line 186: the sleep ends and the loop starts the next
\* cycle.
Sleep ==
    /\ pc = "sleep"
    /\ cycle < MaxCycles
    /\ cycle' = cycle + 1
    /\ pc' = "cycle_host"
    /\ UNCHANGED <<flags, construct, config, enabled, mode, cycleVars,
                   last_enum, sent, did, pure, trace, status_out, totals>>

Next ==
    \/ MonitorNew
    \/ MainSelect
    \/ TestEmail
    \/ PrintStatus
    \/ CheckServerCpu
    \/ HostList
    \/ HostSend
    \/ CheckContainerCpu
    \/ ContainerSend
    \/ CycleReturn
    \/ Sleep

Spec == Init /\ [][Next]_vars

(* ------------------------------------------- the pure evaluations alone *)

\* Longest sampled container set the evaluations are applied to.
MaxSampled == 3
\* cpu_usage values of sampled containers, and thresholds, the evaluations
\* are applied to (the functions take any f64).
CpuValues == {0, 30000, 50000, 75500}
PureThresholds == {0, 50000, DefaultCpuThreshold}

\* The sampled sets, in listing order, before line 79 sorts them.
SampledSets ==
    UNION {{[i \in 1..n |-> [name |-> i, cpu_usage |-> f[i], memory_percent |-> 0]] :
              f \in [1..n -> CpuValues]} : n \in 0..MaxSampled}

PureInit ==
    /\ pc = "pure"
    /\ flags = [status |-> FALSE, test_email |-> FALSE, continuous |-> FALSE]
    /\ construct = NoConstruct
    /\ config = DefaultConfig
    /\ enabled = FALSE
    /\ mode = "none"
    /\ cycle = 0
    /\ reading = 0
    /\ server_high = FALSE
    /\ server_cpu = 0
    /\ host_containers = << >>
    /\ container_high = FALSE
    /\ high_containers = << >>
    /\ last_enum = NoEnum
    /\ sent = << >>
    /\ result = "none"
    /\ did = {}
    /\ trace = << >>
    /\ status_out = NoStatus
    /\ totals = NoTotals
    /\ \E s \in SampledSets, t \in PureThresholds :
          pure = [phase |-> "sampled", sampled |-> s, threshold |-> t,
                  sorted |-> << >>, has_high_cpu |-> FALSE,
                  high_cpu_containers |-> << >>,
                  cpu_table |-> NoTable, container_table |-> NoTable]

\* get_container_stats, line 79, on the sampled set.
PureSort ==
    /\ pure.phase = "sampled"
    /\ pure' = [pure EXCEPT !.phase = "sorted", !.sorted = SortByCpu(pure.sampled)]
    /\ UNCHANGED <<pc, flags, construct, config, enabled, mode, cycle, cycleVars,
                   last_enum, sent, did, trace, status_out, totals>>

\* check_container_cpu_threshold, lines 163-179, on the sorted set.
PureThreshold ==
    /\ pure.phase = "sorted"
    /\ LET r == ThresholdOfSet(pure.sorted, pure.threshold)
       IN  pure' = [pure EXCEPT !.phase = "checked",
                                !.has_high_cpu = r.has_high_cpu,
                                !.high_cpu_containers = r.high_cpu_containers]
    /\ UNCHANGED <<pc, flags, construct, config, enabled, mode, cycle, cycleVars,
                   last_enum, sent, did, trace, status_out, totals>>

\* send_cpu_alert (line 122) and send_container_cpu_alert (line 147): the
\* container part of both alert bodies for the filtered list.
PureCompose ==
    /\ pure.phase = "checked"
    /\ pure' = [pure EXCEPT
                  !.phase = "composed",
                  !.cpu_table = FormatContainerTable(pure.high_cpu_containers),
                  !.container_table =
                      FormatDetailedContainerTable(pure.high_cpu_containers)]
    /\ UNCHANGED <<pc, flags, construct, config, enabled, mode, cycle, cycleVars,
                   last_enum, sent, did, trace, status_out, totals>>

PureNext == PureSort \/ PureThreshold \/ PureCompose

PureSpec == PureInit /\ [][PureNext]_vars

(* =============================================================== claims *)

CycleModes == {"single", "continuous"}

\* The host check of the current cycle has been made.
HostChecked == mode \in CycleModes /\ (pc # "cycle_host" \/ cycle > 1)

\* The host stage of the current cycle is over (or the process panicked in
\* or after its dispatch).
HostStageOver ==
    /\ mode \in CycleModes
    /\ pc \in {"cycle_containers", "container_send", "cycle_return", "sleep",
               "exit_ok", "panicked"}

\* The notifier calls of the current cycle of the given kind.
SentOfKind(kind) == SelectSeq(sent, LAMBDA d : d.kind = kind)

\* C1: for every host reading U and configured threshold T,
\* check_cpu_threshold returns triggered = (U > T) together with that same
\* U; a reading equal to the threshold does not trigger.
C1_HostThresholdStrict ==
    HostChecked =>
        /\ server_high = (reading > config.cpu_threshold)
        /\ server_cpu = reading
        /\ (reading = config.cpu_threshold => ~server_high)

\* A cycle whose host reading equals the threshold, after the check.
C1_Witness ==
    /\ HostChecked
    /\ pc = "cycle_containers"
    /\ reading = config.cpu_threshold
    /\ ~server_high

\* C2: in every check cycle the host-CPU alert is handed to the notifier
\* exactly once when the reading strictly exceeds cpu_threshold and not at
\* all otherwise, and the alert carries the value that was compared.
C2_HostAlertOncePerCycle ==
    mode \in CycleModes =>
        /\ Len(SentOfKind("cpu")) <= 1
        /\ \A i \in 1..Len(sent) :
              sent[i].kind = "cpu" =>
                  /\ sent[i].subject = "HIGH CPU USAGE ALERT"
                  /\ reading > config.cpu_threshold
                  /\ sent[i].server_cpu = reading
                  /\ sent[i].shown_cpu = Fmt2(reading)
        /\ HostStageOver =>
              Len(SentOfKind("cpu")) =
                  (IF reading > config.cpu_threshold THEN 1 ELSE 0)

\* A completed cycle in which the host alert was handed over, next to the
\* threshold: 80.004 against 80.0.
C2_Witness ==
    /\ mode \in CycleModes
    /\ result # "none"
    /\ config.cpu_threshold = 80000
    /\ reading = 80004
    /\ Len(SentOfKind("cpu")) = 1

\* C3: a check cycle always returns Ok with the boolean
\* (host_triggered OR container_triggered), whatever the readings, the
\* container set, the enumeration outcome and the outcome of the sends.
C3_CycleAlwaysReturns ==
    mode \in CycleModes =>
        /\ pc # "panicked"
        /\ result # "none" => result = CycleResult(server_high, container_high)

\* C4: a failed container enumeration does not end the cycle.  In the
\* container portion it yields container_triggered = FALSE with an empty
\* list, no container alert is dispatched and run_monitoring returns; in the
\* host portion the alert goes out as with an enumeration that found no
\* high-CPU container, for the host verdict already made.
C4_EnumFailureTolerated ==
    (mode \in CycleModes /\ last_enum.called /\ ~last_enum.ok) =>
        /\ pc \in {"host_send", "cycle_return", "sleep", "exit_ok", "cycle_host"}
        /\ pc = "host_send" =>
              /\ host_containers = << >>
              /\ server_high = (reading > config.cpu_threshold)
              /\ server_cpu = reading
              /\ sent = << >>
              /\ ENABLED HostSend
        /\ pc # "host_send" =>
              /\ ~container_high
              /\ high_containers = << >>
              /\ SentOfKind("container") = << >>
              /\ Len(SentOfKind("cpu")) = (IF server_high THEN 1 ELSE 0)
        /\ pc = "cycle_return" => ENABLED CycleReturn
        /\ pc \in {"sleep", "exit_ok", "cycle_host"} =>
              result = CycleResult(reading > config.cpu_threshold, FALSE)

\* A single check that completed although the enumeration of its container
\* portion failed, the host alert having been handed over.
C4_Witness ==
    /\ mode = "single"
    /\ pc = "exit_ok"
    /\ last_enum.called /\ ~last_enum.ok
    /\ server_high
    /\ Len(SentOfKind("cpu")) = 1
    /\ result = "true"

\* C5: get_container_stats returns exactly the enumerated containers whose
\* stats could be obtained: a container whose stats are unobtainable is
\* dropped, every other one appears.
C5_UnobtainableStatsDropped ==
    (last_enum.called /\ last_enum.ok) =>
        {last_enum.stats[i].name : i \in 1..Len(last_enum.stats)}
            = {i \in 1..Len(last_enum.listing) : last_enum.listing[i] = "stats_ok"}

\* C7: with the notifier enabled, every dispatch failure makes send return
\* false and none of them aborts the cycle or the process.
C7_DispatchFailuresReturnFalse ==
    enabled =>
        /\ pc # "panicked"
        /\ \A i \in 1..Len(sent) : sent[i].at # "sent" => sent[i].ret = "false"

\* All three of sender address, sender credential and recipient address
\* are present and the explicit flag is set.
FullyConfigured(cfg) ==
    /\ cfg.enabled
    /\ cfg.sender_email # ""
    /\ cfg.sender_password # ""
    /\ cfg.recipient_email # ""

\* The notifier exists: construction succeeded.
Constructed == pc \notin {"start", "exit_fail"}

C6_State ==
    /\ Constructed => (enabled <=> FullyConfigured(config))
    /\ ~enabled => \A i \in 1..Len(sent) :
                      sent[i].ret = "false" /\ ~sent[i].transport

C6_Step == Constructed => (enabled' = enabled /\ config' = config)

\* C6: the notifier's enabled state is fixed at construction as
\* (email.enabled and sender_email, sender_password, recipient_email all
\* non-empty) and never changes afterwards; while it is disabled every send
\* returns false without a transport call.
C6_DisabledNotifierSilent == [](C6_State) /\ [][C6_Step]_vars

\* A host alert that a notifier disabled only by its empty recipient address
\* answered with false, no transport call made.
C6_Witness ==
    /\ config.enabled
    /\ config.sender_email # ""
    /\ config.sender_password # ""
    /\ config.recipient_email = ""
    /\ Len(sent) = 1
    /\ sent[1].kind = "cpu"
    /\ sent[1].ret = "false"
    /\ ~sent[1].transport

\* The evaluations have sorted the sampled set.
PureSorted == pure.phase \in {"sorted", "checked", "composed"}

\* The position of the container named n in the sorted set.
PosInSorted(n) == CHOOSE i \in 1..Len(pure.sorted) : pure.sorted[i].name = n

\* C8: the sequence get_container_stats returns is a permutation of the
\* sampled containers, sorted by cpu_usage descending, containers of equal
\* cpu_usage keeping their listing order.
C8_SortedDescendingStable ==
    PureSorted =>
        /\ Len(pure.sorted) = Len(pure.sampled)
        /\ {pure.sorted[i].name : i \in 1..Len(pure.sorted)} = 1..Len(pure.sampled)
        /\ \A i \in 1..Len(pure.sorted) :
              pure.sorted[i] = pure.sampled[pure.sorted[i].name]
        /\ \A i, j \in 1..Len(pure.sorted) :
              i < j =>
                  /\ pure.sorted[i].cpu_usage >= pure.sorted[j].cpu_usage
                  /\ (pure.sorted[i].cpu_usage = pure.sorted[j].cpu_usage
                        => pure.sorted[i].name < pure.sorted[j].name)

\* A sampled set that had to be reordered and holds a tie: 30.0, 75.5, 30.0.
C8_Witness ==
    /\ PureSorted
    /\ Len(pure.sampled) = 3
    /\ pure.sampled[1].cpu_usage = 30000
    /\ pure.sampled[2].cpu_usage = 75500
    /\ pure.sampled[3].cpu_usage = 30000
    /\ pure.sorted[1].name = 2

\* C9: check_container_cpu_threshold returns exactly the containers of the
\* sorted set whose cpu_usage is strictly greater than the threshold, in the
\* set's order, and its boolean tells whether there is one.
C9_HighCpuSubset ==
    pure.phase = "checked" =>
        LET high == pure.high_cpu_containers
        IN  /\ {high[k] : k \in 1..Len(high)}
                 = {pure.sorted[i] : i \in {j \in 1..Len(pure.sorted) :
                        pure.sorted[j].cpu_usage > pure.threshold}}
            /\ \A k, l \in 1..Len(high) :
                  k < l => PosInSorted(high[k].name) < PosInSorted(high[l].name)
            /\ pure.has_high_cpu <=> (high # << >>)
            /\ \A i \in 1..Len(pure.sorted) :
                  pure.sorted[i].cpu_usage = pure.threshold =>
                      \A k \in 1..Len(high) : high[k].name # pure.sorted[i].name

\* Containers at 30.0, 75.5 and 50.0 against the threshold 50.0: only the
\* one at 75.5 is returned.
C9_Witness ==
    /\ pure.phase = "checked"
    /\ pure.threshold = 50000
    /\ Len(pure.sampled) = 3
    /\ pure.sampled[1].cpu_usage = 30000
    /\ pure.sampled[2].cpu_usage = 75500
    /\ pure.sampled[3].cpu_usage = 50000
    /\ pure.has_high_cpu
    /\ Len(pure.high_cpu_containers) = 1
    /\ pure.high_cpu_containers[1].name = 2

\* No command mode has run and nothing was sampled, printed or sent.
NothingRan == mode = "none" /\ did = {} /\ sent = << >> /\ cycle = 0

\* C10 as stated: a failed ping makes the process exit with failure, no mode
\* having run, and the failed ping is the only way construction fails.
C10_PingOnlyFatal ==
    /\ construct.ping = "failed" => (pc = "exit_fail" /\ NothingRan)
    /\ pc = "exit_fail" => construct.ping = "failed"

\* C10 as amended: the process exits with failure, no mode having run,
\* exactly when the connection to the container runtime could not be
\* established at construction, be it the client set-up or the ping; a
\* config load failure never prevents construction.
C10_RuntimeConnectionOnlyFatal ==
    /\ (construct.ping = "failed" \/ construct.connect = "failed")
          => (pc = "exit_fail" /\ NothingRan)
    /\ pc = "exit_fail"
          => (construct.ping = "failed" \/ construct.connect = "failed")
    /\ (construct.load = "failed" /\ construct.connect = "ok"
          /\ construct.ping = "ok") => Constructed

\* The ping failed after the client was set up, the config file having
\* failed to load as well.
C10_Witness ==
    /\ pc = "exit_fail"
    /\ construct.connect = "ok"
    /\ construct.ping = "failed"
    /\ construct.load = "failed"

\* The process has ended, normally or not.
Ended == pc \in {"exit_ok", "exit_fail", "panicked"}

\* C11: in continuous mode the loop never returns and never ends: every
\* cycle runs to its end, whatever its outcome, and is followed by the
\* sleep and then by the next cycle, which starts only after the previous
\* one has returned.
C11_ContinuousNeverEnds ==
    mode = "continuous" =>
        /\ ~Ended
        /\ (pc = "sleep" => result # "none" /\ trace # << >>
                              /\ trace[Len(trace)] = "return")
        /\ (pc = "cycle_host" /\ cycle > 1 => result # "none")

\* The mode the documented order --status, --test-email, --continuous
\* selects for the given flags.
DocumentedMode(f) ==
    IF f.status THEN "status"
    ELSE IF f.test_email THEN "test_email"
    ELSE IF f.continuous THEN "continuous"
    ELSE "single"

\* The mode the if-chain of main (lines 249-255) selects for the flags.
CodeOrderMode(f) ==
    IF f.test_email THEN "test_email"
    ELSE IF f.status THEN "status"
    ELSE IF f.continuous THEN "continuous"
    ELSE "single"

\* What each mode may do: one mode's work never shows up under another.
OneModeOnly ==
    /\ mode = "none" => NothingRan /\ status_out = NoStatus
    /\ mode = "test_email" =>
          /\ cycle = 0 /\ status_out = NoStatus /\ result = "none"
          /\ did \subseteq {"dispatch"}
          /\ \A i \in 1..Len(sent) : sent[i].kind = "test"
    /\ mode = "status" =>
          /\ cycle = 0 /\ sent = << >> /\ result = "none"
          /\ did \subseteq {"host_sample", "container_sample", "status_print"}
    /\ mode \in CycleModes =>
          /\ cycle >= 1 /\ status_out = NoStatus
          /\ "status_print" \notin did
          /\ \A i \in 1..Len(sent) : sent[i].kind \in {"cpu", "container"}
    /\ pc \notin {"start", "constructed", "exit_fail"} => mode # "none"

\* With no mode flag one cycle is started and no second one follows.
SingleRunsOneCycle ==
    mode = "single" =>
        /\ cycle = 1
        /\ pc # "sleep"
        /\ (result # "none" <=> pc = "exit_ok")

\* C12 as stated: one mode per invocation, the first match in the order
\* --status, --test-email, --continuous, and one check cycle when no mode
\* flag is given.
C12_DocumentedOrder ==
    /\ mode # "none" => mode = DocumentedMode(flags)
    /\ OneModeOnly
    /\ SingleRunsOneCycle

\* C12 amended: one mode per invocation, the first match in the order
\* --test-email, --status, --continuous; with no mode flag exactly one check
\* cycle is started, no second one follows, and the process returns when
\* that cycle returns.
C12_CodeOrder ==
    /\ mode # "none" => mode = CodeOrderMode(flags)
    /\ OneModeOnly
    /\ SingleRunsOneCycle

\* --status and --test-email given together: the test message is sent and
\* the process ends without a status report.
C12_Witness ==
    /\ flags.status /\ flags.test_email
    /\ mode = "test_email"
    /\ Len(sent) = 1
    /\ Ended

\* A single check (no flag) that has returned.
C12_WitnessSingle ==
    /\ ~flags.status /\ ~flags.test_email /\ ~flags.continuous
    /\ mode = "single" /\ pc = "exit_ok" /\ result # "none"

\* The events of the current mode that take a sample, evaluate a
\* threshold, or call the notifier.
SampleEvents == {"sample_host", "sample_containers", "query_info"}
EvalEvents == {"eval_host", "eval_containers", "filter_secondary"}
DispatchEvents == {"compose_cpu", "dispatch_cpu", "compose_container",
                   "dispatch_container", "compose_test", "dispatch_test"}
Events == {trace[i] : i \in 1..Len(trace)}

\* C13: status mode samples and prints, evaluates no threshold, calls the
\* notifier never, and completes even when the container queries fail;
\* test-email mode makes exactly one test-message send and takes no host or
\* container sample.
C13_StatusAndTestEmailFrame ==
    /\ mode = "status" =>
          /\ pc \in {"status", "exit_ok"}
          /\ sent = << >>
          /\ Events \cap (EvalEvents \cup DispatchEvents) = {}
          /\ ~server_high /\ ~container_high
          /\ high_containers = << >> /\ host_containers = << >>
          /\ totals = NoTotals
          /\ pc = "exit_ok" =>
                /\ status_out.printed
                /\ status_out.cpu_usage = Fmt2(reading)
                /\ {"sample_host", "sample_containers", "print"} \subseteq Events
                /\ last_enum.called
                /\ status_out.stats_ok = last_enum.ok
                /\ status_out.running = Len(last_enum.stats)
    /\ mode = "test_email" =>
          /\ Events \cap (SampleEvents \cup EvalEvents) = {}
          /\ did \cap {"host_sample", "container_sample"} = {}
          /\ ~last_enum.called
          /\ Len(sent) = (IF pc = "test_email" THEN 0 ELSE 1)
          /\ \A i \in 1..Len(sent) :
                sent[i].kind = "test" /\ sent[i].subject = "Test Email"
          /\ pc \in {"test_email", "exit_ok", "panicked"}

\* A status report printed although both container queries failed.
C13_Witness ==
    /\ mode = "status" /\ pc = "exit_ok"
    /\ status_out.printed
    /\ ~status_out.stats_ok /\ ~status_out.info_ok
    /\ reading > config.cpu_threshold

\* A test message that went out through the transport.
C13_WitnessTest ==
    /\ mode = "test_email" /\ pc = "exit_ok"
    /\ Len(sent) = 1 /\ sent[1].at = "sent"

BoolSeq(b, events) == IF b THEN events ELSE << >>

\* The events of one cycle as run_monitoring orders them: the host portion
\* (with its own container sample and its dispatch when the host is high),
\* then the container portion.  h: host high; s: the secondary query
\* succeeded; p: the primary query succeeded; c: a container is high.
CyclePattern(h, s, p, c) ==
    <<"sample_host", "eval_host">>
    \o BoolSeq(h, <<"sample_containers">>)
    \o BoolSeq(h /\ s, <<"filter_secondary">>)
    \o BoolSeq(h, <<"compose_cpu", "dispatch_cpu">>)
    \o <<"sample_containers">>
    \o BoolSeq(p, <<"eval_containers">>)
    \o BoolSeq(p /\ c, <<"compose_container", "dispatch_container">>)
    \o <<"return">>

IsPrefix(a, b) == Len(a) <= Len(b) /\ SubSeq(b, 1, Len(a)) = a

\* The positions of the events of the given set in the trace.
PositionsOf(events) == {i \in 1..Len(trace) : trace[i] \in events}

PrimaryVerdict ==
    last_enum.ok /\ ThresholdOfSet(last_enum.stats, config.cpu_threshold).has_high_cpu

\* C16: the fixed 50% filter is applied only after the host threshold has
\* triggered and only fills the list of the host alert; the container alert
\* and the container part of the returned boolean are decided by the
\* configured cpu_threshold alone.
C16_SecondaryFilterOnlyLists ==
    mode \in CycleModes /\ HostChecked =>
        /\ "filter_secondary" \in Events => server_high
        /\ (pc = "host_send" =>
               host_containers =
                   (IF last_enum.ok
                    THEN FilterHighCpu(last_enum.stats, SecondaryThreshold)
                    ELSE << >>))
        /\ \A i \in 1..Len(sent) :
              /\ sent[i].kind = "cpu" => sent[i].containers = host_containers
              /\ sent[i].kind = "container" =>
                    container_high /\ sent[i].containers = high_containers
        /\ (pc \in {"container_send", "cycle_return"} /\ last_enum.called =>
               /\ container_high = PrimaryVerdict
               /\ high_containers =
                     (IF last_enum.ok
                      THEN FilterHighCpu(last_enum.stats, config.cpu_threshold)
                      ELSE << >>))
        /\ (pc \in {"cycle_return", "sleep", "exit_ok"}
              \/ (pc = "cycle_host" /\ cycle > 1) =>
               Len(SentOfKind("container")) = (IF container_high THEN 1 ELSE 0))
        /\ (result # "none" => result = CycleResult(server_high, container_high))

\* A completed cycle in which the 50% filter ran and selected nothing while
\* the configured threshold triggered the container alert.
C16_Witness ==
    /\ mode \in CycleModes /\ result = "true"
    /\ "filter_secondary" \in Events
    /\ Len(SentOfKind("cpu")) = 1
    /\ sent[1].containers = << >>
    /\ container_high
    /\ Len(SentOfKind("container")) = 1
    /\ high_containers # << >>

\* C17: alerting has no memory across cycles.  Every cycle in which the
\* host reading is above the threshold makes one host-alert dispatch
\* attempt, whatever earlier cycles sent or failed to send, and the returned
\* boolean is that of the cycle's own readings.
C17_NoMemoryAcrossCycles ==
    mode \in CycleModes =>
        /\ totals.high_cycles <= cycle
        /\ totals.host_failed <= totals.host_alerts
        /\ totals.high_cycles - totals.host_alerts =
              (IF pc \in {"host_list", "host_send"} THEN 1 ELSE 0)
        /\ (HostStageOver =>
               Len(SentOfKind("cpu")) = (IF reading > config.cpu_threshold THEN 1 ELSE 0))
        /\ (result # "none" =>
               result = CycleResult(reading > config.cpu_threshold, container_high))

\* Two consecutive cycles above the threshold, two dispatch attempts: the
\* first failed and the second went out.
C17_Witness ==
    /\ mode = "continuous" /\ cycle = 2 /\ pc = "sleep"
    /\ totals = [high_cycles |-> 2, host_alerts |-> 2, host_failed |-> 1]
    /\ Len(SentOfKind("cpu")) = 1
    /\ sent[1].ret = "true"

\* C18: container cpu_usage being the placeholder 0.0, with a configured
\* cpu_threshold >= 0 no cycle has container_triggered = TRUE or dispatches
\* a container alert, the container list of every host alert is empty, and
\* the returned boolean equals the host trigger.
C18_PlaceholderNeverTriggers ==
    mode \in CycleModes /\ config.cpu_threshold >= 0 =>
        /\ ~container_high
        /\ high_containers = << >>
        /\ host_containers = << >>
        /\ pc # "container_send"
        /\ \A i \in 1..Len(sent) :
              sent[i].kind = "cpu" /\ sent[i].containers = << >>
        /\ "dispatch_container" \notin Events
        /\ (result # "none" =>
               /\ result = CycleResult(server_high, FALSE)
               /\ (result = "true") = (reading > config.cpu_threshold))

\* A completed cycle at threshold 0 with containers running and the host
\* above the threshold: a host alert with an empty list, no container alert.
C18_Witness ==
    /\ mode \in CycleModes /\ result = "true"
    /\ config.cpu_threshold = 0
    /\ last_enum.ok /\ Len(last_enum.stats) = MaxContainers
    /\ Len(sent) = 1 /\ sent[1].kind = "cpu" /\ sent[1].containers = << >>

====
